---------------------------- MODULE Spec2Model ----------------------------
(***************************************************************************)
(* Model of the Outlook agenda plugin: the date-range resolvers            *)
(* (calendar.py get_date_range, outlook.py get_date_range, the search      *)
(* handler's _get_date_range), the search handler's callback, the two      *)
(* get_meetings query loops, and the command line's main().                *)
(***************************************************************************)
EXTENDS Integers, Sequences, FiniteSets, TLC

VARIABLES
    clock,      \* the value datetime.now() returns during the call
    dr,         \* outcome of the last date-range resolver call
    hpc,        \* position inside GetOutlookAgenda.callback
    hquery,     \* the Query handed to the callback (text)
    hdispatch,  \* what Dispatch did in the callback: "none", "ok" or the exception
    yielded,    \* the Results the callback has yielded so far
    escaped,    \* the exception that left the callback, or "none"
    store,      \* the provider's calendar folder: its items, in folder order
    qcall,      \* the arguments and environment of the last get_meetings call
    qret,       \* what that call returned, or how it ended
    cargs,      \* the command line, as argparse sees it
    cpc,        \* position inside main()
    crange,     \* start_date, end_date once resolved
    cmeetings,  \* what get_meetings returned to main()
    cout,       \* what the run has printed, and its exit status
    ccalls      \* provider calls made by the run: Dispatch, Restrict

hvars == <<hpc, hquery, hdispatch, yielded, escaped>>

qvars == <<store, qcall, qret>>

cvars == <<cargs, cpc, crange, cmeetings, cout, ccalls>>

vars == <<clock, dr, hvars, qvars, cvars>>

---------------------------------------------------------------------------
(* Bounds of the model.                                                    *)

FirstYear == 2023
NumYears == 2

Years == FirstYear .. (FirstYear + NumYears - 1)
\* years a computed date may fall in (fromnow reaches 365 days ahead)
CalYears == (FirstYear - 1) .. (FirstYear + NumYears + 1)

---------------------------------------------------------------------------
(* datetime / timedelta, as the standard library computes them.            *)

IsLeap(y) == (y % 4 = 0) /\ ((y % 100 # 0) \/ (y % 400 = 0))

DaysInMonth(y, m) ==
    IF m = 2 THEN (IF IsLeap(y) THEN 29 ELSE 28)
    ELSE IF m \in {4, 6, 9, 11} THEN 30 ELSE 31

DaysBeforeYear(y) ==
    LET p == y - 1 IN p * 365 + (p \div 4) - (p \div 100) + (p \div 400)

RECURSIVE DaysBeforeMonth(_, _)
DaysBeforeMonth(y, m) ==
    IF m = 1 THEN 0 ELSE DaysBeforeMonth(y, m - 1) + DaysInMonth(y, m - 1)

\* date.toordinal(): day 1 is 0001-01-01
ToOrdinal(dt) == DaysBeforeYear(dt.year) + DaysBeforeMonth(dt.year, dt.month) + dt.day

\* date.fromordinal(), year/month/day of an ordinal
OrdYear(n) == CHOOSE y \in CalYears : DaysBeforeYear(y) < n /\ n <= DaysBeforeYear(y + 1)
OrdMonth(n) ==
    LET y == OrdYear(n)
        r == n - DaysBeforeYear(y)
    IN CHOOSE m \in 1..12 : DaysBeforeMonth(y, m) < r /\ r <= DaysBeforeMonth(y, m) + DaysInMonth(y, m)
OrdDay(n) ==
    LET y == OrdYear(n) IN n - DaysBeforeYear(y) - DaysBeforeMonth(y, OrdMonth(n))

\* datetime.weekday(): Monday is 0
Weekday(dt) == (ToOrdinal(dt) + 6) % 7

SecondOfDay(dt) == dt.hour * 3600 + dt.minute * 60 + dt.second

\* a datetime's fields are in range (what the constructor and replace() check)
ValidDateTime(dt) ==
    /\ dt.month \in 1..12
    /\ dt.day \in 1..DaysInMonth(dt.year, dt.month)
    /\ dt.hour \in 0..23 /\ dt.minute \in 0..59 /\ dt.second \in 0..59
    /\ dt.microsecond \in 0..999999

\* datetime + timedelta(days, seconds): carry seconds into days, days into the date
AddDelta(dt, days, seconds) ==
    LET t == SecondOfDay(dt) + seconds
        carry == IF t >= 0 THEN t \div 86400 ELSE -((86399 - t) \div 86400)
        s == t - carry * 86400
        n == ToOrdinal(dt) + days + carry
    IN [year |-> OrdYear(n), month |-> OrdMonth(n), day |-> OrdDay(n),
        hour |-> s \div 3600, minute |-> (s % 3600) \div 60, second |-> s % 60,
        microsecond |-> dt.microsecond]

\* datetime - datetime, a normalised timedelta
SubDt(a, b) ==
    LET us == a.microsecond - b.microsecond
        cu == IF us < 0 THEN 1 ELSE 0
        sc == SecondOfDay(a) - SecondOfDay(b) - cu
        cs == IF sc < 0 THEN 1 ELSE 0
    IN [days |-> ToOrdinal(a) - ToOrdinal(b) - cs,
        seconds |-> sc + cs * 86400,
        microseconds |-> us + cu * 1000000]

\* datetime comparison: field by field, most significant first
DtLT(a, b) ==
    LET oa == ToOrdinal(a)  ob == ToOrdinal(b)
        sa == SecondOfDay(a)  sb == SecondOfDay(b)
    IN \/ oa < ob
       \/ oa = ob /\ sa < sb
       \/ oa = ob /\ sa = sb /\ a.microsecond < b.microsecond

DtLE(a, b) == ~DtLT(b, a)

\* now.replace(hour=0, minute=0, second=0, microsecond=0)
Midnight(dt) == [dt EXCEPT !.hour = 0, !.minute = 0, !.second = 0, !.microsecond = 0]

---------------------------------------------------------------------------
(* The instants the clock is read at.                                      *)

TimesOfDay ==
    { [hour |-> 0, minute |-> 0, second |-> 0, microsecond |-> 0],
      [hour |-> 12, minute |-> 30, second |-> 15, microsecond |-> 500000],
      [hour |-> 23, minute |-> 59, second |-> 59, microsecond |-> 999999] }

Instants ==
    { i \in [year : Years, month : 1..12, day : 1..31, hour : {t.hour : t \in TimesOfDay},
             minute : {t.minute : t \in TimesOfDay}, second : {t.second : t \in TimesOfDay},
             microsecond : {t.microsecond : t \in TimesOfDay}] :
        /\ i.day <= DaysInMonth(i.year, i.month)
        /\ [hour |-> i.hour, minute |-> i.minute, second |-> i.second,
            microsecond |-> i.microsecond] \in TimesOfDay }

NoDt == [year |-> 0, month |-> 0, day |-> 0, hour |-> 0, minute |-> 0, second |-> 0,
         microsecond |-> 0]

---------------------------------------------------------------------------
(* The date-range resolvers.                                               *)

\* the tokens a caller may pass; the last three are outside every resolver's set
Tokens == {"today", "tomorrow", "week", "month", "fromnow", "custom", "yesterday", "Week"}

\* str.lower() on the tokens
LowerToken(p) == IF p = "Week" THEN "week" ELSE p

Range(s, e) == [kind |-> "ok", start |-> s, end |-> e]
Raised(exc) == [kind |-> exc, start |-> NoDt, end |-> NoDt]

\* start + timedelta(days=1) - timedelta(seconds=1)
DayEnd(start) == AddDelta(AddDelta(start, 1, 0), 0, -1)

TodayRange(now) == LET start == Midnight(now) IN Range(start, DayEnd(start))

TomorrowRange(now) == LET start == Midnight(AddDelta(now, 1, 0)) IN Range(start, DayEnd(start))

\* a week counted from Sunday (isoweekday() % 7 instead of weekday())
WeekStartSunday(now) == Midnight(AddDelta(now, -((Weekday(now) + 1) % 7), 0))

\* now - timedelta(days=now.weekday()), then midnight
WeekStart(now) == Midnight(AddDelta(now, -Weekday(now), 0))

\* start + timedelta(days=6, hours=23, minutes=59, seconds=59)
WeekEnd(start) == AddDelta(start, 6, 23 * 3600 + 59 * 60 + 59)

WeekRange(now) == LET start == WeekStart(now) IN Range(start, WeekEnd(start))

\* now.replace(day=1, hour=0, minute=0, second=0, microsecond=0)
MonthStart(now) == [Midnight(now) EXCEPT !.day = 1]

\* the December branch forgotten
NextMonthStartNoRollover(start, now) == [start EXCEPT !.month = start.month + 1]

\* the first instant of the next month: start.replace(...)
NextMonthStart(start, now) ==
    IF now.month = 12
    THEN [start EXCEPT !.year = start.year + 1, !.month = 1]
    ELSE [start EXCEPT !.month = start.month + 1]

\* the closing "end - timedelta(seconds=1)" forgotten
MonthRangeOpenEnd(now) ==
    LET start == MonthStart(now) IN Range(start, NextMonthStart(start, now))

MonthRange(now) ==
    LET start == MonthStart(now)
        next == NextMonthStart(start, now)
    IN IF ValidDateTime(next) THEN Range(start, AddDelta(next, 0, -1))
       ELSE Raised("ValueError")

\* start + timedelta(days=365) - timedelta(seconds=1)
FromNowRange(now) ==
    LET start == Midnight(now) IN Range(start, AddDelta(AddDelta(start, 365, 0), 0, -1))

\* calendar.py get_date_range
get_date_range(now, period) ==
    IF period = "today" THEN TodayRange(now)
    ELSE IF period = "tomorrow" THEN TomorrowRange(now)
    ELSE IF period = "week" THEN WeekRange(now)
    ELSE IF period = "month" THEN MonthRange(now)
    ELSE IF period = "fromnow" THEN FromNowRange(now)
    ELSE Raised("ValueError")

\* outlook.py get_date_range: the same body
outlook_get_date_range(now, period) ==
    IF period = "today" THEN TodayRange(now)
    ELSE IF period = "tomorrow" THEN TomorrowRange(now)
    ELSE IF period = "week" THEN WeekRange(now)
    ELSE IF period = "month" THEN MonthRange(now)
    ELSE IF period = "fromnow" THEN FromNowRange(now)
    ELSE Raised("ValueError")

\* GetOutlookAgenda._get_date_range: lower-cases the token, has no fromnow
\* branch and no else branch, so "return start, end" reads unbound locals
handler_get_date_range(now, period0) ==
    LET period == LowerToken(period0) IN
    IF period = "today" THEN TodayRange(now)
    ELSE IF period = "tomorrow" THEN TomorrowRange(now)
    ELSE IF period = "week" THEN WeekRange(now)
    ELSE IF period = "month" THEN MonthRange(now)
    ELSE Raised("UnboundLocalError")

Idle == [fn |-> "none", period |-> "none", ret |-> Raised("idle")]

---------------------------------------------------------------------------
(* Strings: tuples of one-character strings.                               *)

None == <<"<None>">>

\* str.lower()
LowerChar(c) ==
    IF c = "A" THEN "a" ELSE IF c = "B" THEN "b" ELSE IF c = "O" THEN "o"
    ELSE IF c = "L" THEN "l" ELSE c

Lower(str) == [i \in DOMAIN str |-> LowerChar(str[i])]

\* needle in hay
Contains(needle, hay) ==
    \E i \in 0..(Len(hay) - Len(needle)) :
        \A j \in 1..Len(needle) : hay[i + j] = needle[j]

\* truth value of an optional string: None and "" are false
Truthy(str) == str # None /\ str # <<>>

---------------------------------------------------------------------------
(* The provider: the calendar folder's items, Restrict and Sort.           *)

MaxItems == 3

FieldNames == {"Subject", "Start", "End", "Organizer", "RequiredAttendees", "Location",
               "Body", "IsRecurring"}

QueryDay == [year |-> FirstYear, month |-> 3, day |-> 1, hour |-> 0, minute |-> 0,
             second |-> 0, microsecond |-> 0]

ItemStarts == {[QueryDay EXCEPT !.hour = 9], [QueryDay EXCEPT !.hour = 11]}

\* bad: the field whose read raises exc ("none": every read succeeds)
Failures ==
    { [bad |-> "none", exc |-> "none"],
      [bad |-> "Subject", exc |-> "AttributeError"],
      [bad |-> "Body", exc |-> "AttributeError"],
      [bad |-> "Body", exc |-> "com_error"] }

\* subject and required attendees of the items
ItemTexts ==
    { [Subject |-> <<"A", "b">>, RequiredAttendees |-> None],
      [Subject |-> <<"A", "b">>, RequiredAttendees |-> <<"A", "l">>],
      [Subject |-> <<"b">>, RequiredAttendees |-> <<"A", "l">>] }

\* every text on an item whose reads succeed; one text on the items a read
\* of which fails
Item(tx, st, fl) ==
    [Subject |-> tx.Subject, Organizer |-> <<"B", "o">>,
     RequiredAttendees |-> tx.RequiredAttendees,
     Start |-> st, End |-> AddDelta(st, 0, 3600), Location |-> <<"r">>,
     Body |-> <<"t">>, IsRecurring |-> FALSE, bad |-> fl.bad, exc |-> fl.exc]

Items ==
    { Item(tx, st, fl) : tx \in ItemTexts, st \in ItemStarts,
                         fl \in {x \in Failures : x.bad = "none"} }
    \cup
    { Item([Subject |-> <<"A", "b">>, RequiredAttendees |-> <<"A", "l">>], st, fl) :
        st \in ItemStarts, fl \in Failures }

Stores == UNION { [1..n -> Items] : n \in 0..MaxItems }

NoFilters == [subject |-> None, organizer |-> None, attendee |-> None]

\* every combination of an absent or supplied filter, and the empty string
FilterSets ==
    [subject : {None, <<"a", "B">>}, organizer : {None, <<"b", "O">>, <<"a", "l">>},
     attendee : {None, <<"a">>}]
    \cup {[NoFilters EXCEPT !.subject = <<>>]}

WholeDay == [start |-> QueryDay, end |-> DayEnd(QueryDay)]

QueryRanges ==
    { WholeDay,
      [start |-> [QueryDay EXCEPT !.hour = 10, !.minute = 30, !.second = 30],
       end |-> DayEnd(QueryDay)] }

\* strftime("%m/%d/%Y %H:%M %p"): the text carries no seconds
FilterInstant(dt) == [dt EXCEPT !.second = 0, !.microsecond = 0]

\* the items "[Start] >= 'start_str' AND [End] <= 'end_str'" selects
InFilter(a, start_date, end_date) ==
    /\ DtLE(FilterInstant(start_date), a.Start)
    /\ DtLE(a.End, FilterInstant(end_date))

\* calendar.Items.Restrict(filter_str)
Restrict(items, start_date, end_date) ==
    SelectSeq(items, LAMBDA a : InFilter(a, start_date, end_date))

IsSortedByStart(seq) ==
    \A i, j \in DOMAIN seq : i < j => DtLE(seq[i].Start, seq[j].Start)

\* appointments.Sort("[Start]"): the orders it may leave the items in
\* (items with equal Start in either order)
Sorted(items) ==
    { seq \in { [i \in DOMAIN items |-> items[f[i]]] : f \in Permutations(DOMAIN items) } :
        IsSortedByStart(seq) }

---------------------------------------------------------------------------
(* The query loop of get_meetings.                                         *)

\* the dict appended for an appointment
Meeting(a) ==
    [subject |-> a.Subject, start |-> a.Start, end |-> a.End, organizer |-> a.Organizer,
     required_attendees |-> a.RequiredAttendees, location |-> a.Location,
     body |-> a.Body, is_recurring |-> a.IsRecurring]

\* reading a field of the appointment raises
ReadFails(a, fld) == a.bad = fld

\* appointment.RequiredAttendees or ""
AttendeesOrEmpty(a) == IF Truthy(a.RequiredAttendees) THEN a.RequiredAttendees ELSE <<>>

\* building the dict reads the eight fields in turn
DictStep(a) ==
    IF \E fld \in FieldNames : ReadFails(a, fld) THEN a.exc ELSE "append"

AttendeeStep(a, f) ==
    IF Truthy(f.attendee)
    THEN IF ReadFails(a, "RequiredAttendees") THEN a.exc
         ELSE IF ~Contains(Lower(f.attendee), Lower(AttendeesOrEmpty(a))) THEN "continue"
         ELSE DictStep(a)
    ELSE DictStep(a)

OrganizerStep(a, f) ==
    IF Truthy(f.organizer)
    THEN IF ReadFails(a, "Organizer") THEN a.exc
         ELSE IF ~Contains(Lower(f.organizer), Lower(a.Organizer)) THEN "continue"
         ELSE AttendeeStep(a, f)
    ELSE AttendeeStep(a, f)

\* one pass of the loop body: "append", "continue", or the exception raised
LoopBody(a, f) ==
    IF Truthy(f.subject)
    THEN IF ReadFails(a, "Subject") THEN a.exc
         ELSE IF ~Contains(Lower(f.subject), Lower(a.Subject)) THEN "continue"
         ELSE OrganizerStep(a, f)
    ELSE OrganizerStep(a, f)

ReturnList(ms) == [kind |-> "list", meetings |-> ms]
ReturnNone == [kind |-> "None", meetings |-> <<>>]
Exit(code) == [kind |-> code, meetings |-> <<>>]

\* calendar.py: the loop from appointment i on, meetings collected so far
RECURSIVE CalendarLoop(_, _, _, _)
CalendarLoop(appointments, f, i, meetings) ==
    IF i > Len(appointments) THEN ReturnList(meetings)
    ELSE LET step == LoopBody(appointments[i], f) IN
         IF step = "append"
         THEN CalendarLoop(appointments, f, i + 1, Append(meetings, Meeting(appointments[i])))
         ELSE IF step \in {"continue", "AttributeError"}
         THEN CalendarLoop(appointments, f, i + 1, meetings)
         ELSE Exit("exit1")

\* outlook.py: "return meetings" sits inside the loop, right after the append;
\* the bare except passes; falling off the loop returns None
RECURSIVE OutlookLoop(_, _, _, _)
OutlookLoop(appointments, f, i, meetings) ==
    IF i > Len(appointments) THEN ReturnNone
    ELSE LET step == LoopBody(appointments[i], f) IN
         IF step = "append"
         THEN ReturnList(Append(meetings, Meeting(appointments[i])))
         ELSE OutlookLoop(appointments, f, i + 1, meetings)

\* how the environment of calendar.py get_meetings may behave: Dispatch
\* succeeds, fails with hresult -2147221005, fails with another hresult, or
\* the namespace/folder/Restrict calls fail
CalendarEnvs == {"ok", "not_installed", "dispatch_error", "query_error"}

\* calendar.py get_meetings, given the sorted Restrict result
get_meetings(env, appointments, f) ==
    IF env = "not_installed" THEN Exit("exit1")
    ELSE IF env = "dispatch_error" THEN Exit("com_error")
    ELSE IF env = "query_error" THEN Exit("exit1")
    ELSE CalendarLoop(appointments, f, 1, <<>>)

\* outlook.py get_meetings reads a module-level name "outlook" that the file
\* never binds: unbound unless the importing code binds it
OutlookEnvs == {"ok", "unbound", "query_error"}

outlook_get_meetings(env, appointments, f) ==
    IF env = "ok" THEN OutlookLoop(appointments, f, 1, <<>>) ELSE ReturnNone

NoCall == [impl |-> "none", env |-> "none", range |-> [start |-> NoDt, end |-> NoDt],
           filters |-> NoFilters, appointments |-> <<>>]

\* the calls made: every range and filter set when the provider answers; when
\* it does not, the arguments are never read, and one choice of them stands
\* for all
CallsOf(envs) ==
    { c \in [env : envs, range : QueryRanges, filters : FilterSets] :
        c.env # "ok" => (c.range = WholeDay /\ c.filters = NoFilters) }
NoRet == [kind |-> "none", meetings |-> <<>>]

\* the provider calls made before the loop: none unless the environment lets
\* the call reach Restrict
Queried(env, items, range) ==
    IF env = "ok" THEN Sorted(Restrict(items, range.start, range.end)) ELSE {<<>>}

---------------------------------------------------------------------------
(* The command line: main() of calendar.py, and get_agenda of outlook.py.  *)

\* a date argument, by the strptime format its text has the shape of
\* ("date": %Y-%m-%d, "datetime": %Y-%m-%d %H:%M, "other": neither) and the
\* numbers written in it
DateText(form, y, mo, d, h, mi) ==
    [form |-> form, year |-> y, month |-> mo, day |-> d, hour |-> h, minute |-> mi]

DateTexts ==
    { DateText("date", FirstYear, 3, 1, 0, 0),        \* "2023-03-01"
      DateText("datetime", FirstYear, 3, 1, 18, 0),   \* "2023-03-01 18:00"
      DateText("date", FirstYear, 2, 28, 0, 0),       \* "2023-02-28"
      DateText("date", FirstYear, 2, 30, 0, 0),       \* "2023-02-30"
      DateText("datetime", FirstYear, 3, 1, 25, 0),   \* "2023-03-01 25:00"
      DateText("other", 0, 0, 0, 0, 0) }              \* "tomorrow"

\* datetime.strptime(dt_str, fmt): a ValueError unless the text has the
\* format's shape and its numbers make a date
Strptime(txt, form) ==
    LET dt == [year |-> txt.year, month |-> txt.month, day |-> txt.day, hour |-> txt.hour,
               minute |-> txt.minute, second |-> 0, microsecond |-> 0]
    IN IF txt.form = form /\ ValidDateTime(dt) THEN [ok |-> TRUE, dt |-> dt]
       ELSE [ok |-> FALSE, dt |-> NoDt]

parse_datetime(dt_str, default_hour, default_minute) ==
    LET full == Strptime(dt_str, "datetime") IN
    IF full.ok THEN full
    ELSE LET day == Strptime(dt_str, "date") IN
         IF day.ok
         THEN [ok |-> TRUE,
               dt |-> [day.dt EXCEPT !.hour = default_hour, !.minute = default_minute]]
         ELSE day

\* choices=["today", "tomorrow", "week", "month"]
PeriodChoices == {"today", "tomorrow", "week", "month"}

\* what may follow --period on the command line ("None": the flag is absent)
PeriodArgs == PeriodChoices \cup {"None", "fromnow", "yesterday"}

NoCustom == <<>>

CliFilterSets ==
    { NoFilters, [subject |-> <<"a", "B">>, organizer |-> None, attendee |-> <<"a">>] }

CommandLines ==
    { a \in [period : PeriodArgs, custom : {NoCustom} \cup (DateTexts \X DateTexts),
             filters : CliFilterSets, past : BOOLEAN] :
        \* both flags together: one instance stands for all
        (a.period # "None" /\ a.custom # NoCustom) =>
            (a.period = "today" /\ a.filters = NoFilters /\ ~a.past
             /\ a.custom[1] = a.custom[2] /\ a.custom[1].form = "other") }

\* argparse rejects the command line (usage message, exit status 2)
ArgparseRejects(a) ==
    \/ a.period # "None" /\ a.period \notin PeriodChoices
    \/ a.period # "None" /\ a.custom # NoCustom

\* a range whose start is later than its end never reaches the provider
RangeRejectedNever(start_date, end_date) == FALSE

\* if start_date > end_date
RangeRejected(start_date, end_date) == DtLT(end_date, start_date)

\* the run's clock readings
MaxElapsed == 1

CliInstants ==
    { [QueryDay EXCEPT !.hour = 10, !.minute = 1],
      [QueryDay EXCEPT !.hour = 12] }

MaxCliItems == 2

CliItems == { a \in Items : a.bad = "none" }

CliStores == UNION { [1..n -> CliItems] : n \in 0..MaxCliItems }

NoRange == [start |-> NoDt, end |-> NoDt]
NoOutput == [error |-> "none", header |-> FALSE, shown |-> <<>>, notice |-> FALSE,
             status |-> "running"]
NoCalls == [dispatch |-> 0, restrict |-> 0]
NoArgs == [period |-> "None", custom |-> NoCustom, filters |-> NoFilters, past |-> FALSE]

CliIdle ==
    /\ cargs = NoArgs
    /\ cpc = "idle"
    /\ crange = NoRange
    /\ cmeetings = <<>>
    /\ cout = NoOutput
    /\ ccalls = NoCalls

Failed(msg, status) == [NoOutput EXCEPT !.error = msg, !.status = status]

\* the past-meeting filter runs only under "if args.period"
PastFilterApplies(a) == ~a.past /\ a.period # "None"

\* [m for m in meetings if m['end'] >= now]
NotPast(meetings, now) == SelectSeq(meetings, LAMBDA m : DtLE(now, m.end))

---------------------------------------------------------------------------
(* GetOutlookAgenda.callback                                               *)

QueryTexts == {"", "today", "week"}

\* what win32com.client.Dispatch("Outlook.Application") does
DispatchOutcomes == {"ok", "com_error"}

\* an except clause for another exception type
CallbackCatchesAttributeError(exc) == exc = "AttributeError"

\* except pywintypes.com_error
CallbackCatches(exc) == exc = "com_error"

UsageHint == [title |-> "usage", sub |-> "default", start |-> NoDt, end |-> NoDt]
ErrorResult == [title |-> "Error", sub |-> "wont work", start |-> NoDt, end |-> NoDt]
DateResult(r) == [title |-> "dates", sub |-> "default", start |-> r.start, end |-> r.end]

Init ==
    /\ clock \in Instants
    /\ dr = Idle
    /\ hpc = "start"
    /\ hquery = ""
    /\ hdispatch = "none"
    /\ yielded = <<>>
    /\ escaped = "none"
    /\ store = <<>>
    /\ qcall = NoCall
    /\ qret = NoRet
    /\ CliIdle

Fresh == dr = Idle /\ hpc = "start"

CallGetDateRange(p) ==
    /\ Fresh
    /\ dr' = [fn |-> "calendar", period |-> p, ret |-> get_date_range(clock, p)]
    /\ UNCHANGED <<clock, hvars, qvars, cvars>>

CallOutlookGetDateRange(p) ==
    /\ Fresh
    /\ dr' = [fn |-> "outlook", period |-> p, ret |-> outlook_get_date_range(clock, p)]
    /\ UNCHANGED <<clock, hvars, qvars, cvars>>

CallHandlerGetDateRange(p) ==
    /\ Fresh
    /\ dr' = [fn |-> "handler", period |-> p, ret |-> handler_get_date_range(clock, p)]
    /\ UNCHANGED <<clock, hvars, qvars, cvars>>

\* the host calls callback(query); the body runs to Dispatch ("assert
\* self.plugin" passes: the host hands queries only to a registered handler)
CallbackDispatch(text, outcome) ==
    /\ Fresh
    /\ hquery' = text
    /\ hdispatch' = outcome
    /\ IF outcome = "ok" THEN hpc' = "try" /\ escaped' = "none"
       ELSE IF CallbackCatches(outcome) THEN hpc' = "except" /\ escaped' = "none"
       ELSE hpc' = "done" /\ escaped' = outcome
    /\ UNCHANGED <<clock, dr, yielded, qvars, cvars>>

\* the try body after Dispatch: one yield on either branch
CallbackYield ==
    /\ hpc = "try"
    /\ IF hquery = ""
       THEN yielded' = Append(yielded, UsageHint) /\ escaped' = escaped /\ hpc' = "suspended"
       ELSE LET r == handler_get_date_range(clock, "today") IN
            IF r.kind = "ok"
            THEN yielded' = Append(yielded, DateResult(r)) /\ escaped' = escaped
                 /\ hpc' = "suspended"
            ELSE yielded' = yielded /\ escaped' = r.kind /\ hpc' = "done"
    /\ UNCHANGED <<clock, dr, hquery, hdispatch, qvars, cvars>>

\* the except clause: one yield
CallbackExcept ==
    /\ hpc = "except"
    /\ yielded' = Append(yielded, ErrorResult)
    /\ hpc' = "suspended"
    /\ UNCHANGED <<clock, dr, hquery, hdispatch, escaped, qvars, cvars>>

\* the consumer resumes the generator, which ends
CallbackResume ==
    /\ hpc = "suspended"
    /\ hpc' = "done"
    /\ UNCHANGED <<clock, dr, hquery, hdispatch, yielded, escaped, qvars, cvars>>

InitQuery ==
    /\ clock = QueryDay
    /\ dr = Idle
    /\ hpc = "start" /\ hquery = "" /\ hdispatch = "none"
    /\ yielded = <<>> /\ escaped = "none"
    /\ store \in Stores
    /\ qcall = NoCall
    /\ qret = NoRet
    /\ CliIdle

CallGetMeetings(env, range, f) ==
    /\ qcall = NoCall
    /\ \E appointments \in Queried(env, store, range) :
          /\ qcall' = [impl |-> "calendar", env |-> env, range |-> range, filters |-> f,
                       appointments |-> appointments]
          /\ qret' = get_meetings(env, appointments, f)
    /\ UNCHANGED <<clock, dr, hvars, store, cvars>>

CallOutlookGetMeetings(env, range, f) ==
    /\ qcall = NoCall
    /\ \E appointments \in Queried(env, store, range) :
          /\ qcall' = [impl |-> "outlook", env |-> env, range |-> range, filters |-> f,
                       appointments |-> appointments]
          /\ qret' = outlook_get_meetings(env, appointments, f)
    /\ UNCHANGED <<clock, dr, hvars, store, cvars>>

NextQuery ==
    \/ \E c \in CallsOf(CalendarEnvs) : CallGetMeetings(c.env, c.range, c.filters)
    \/ \E c \in CallsOf(OutlookEnvs) : CallOutlookGetMeetings(c.env, c.range, c.filters)

SpecQuery == InitQuery /\ [][NextQuery]_vars

InitCli ==
    /\ clock \in CliInstants
    /\ dr = Idle
    /\ hpc = "start" /\ hquery = "" /\ hdispatch = "none"
    /\ yielded = <<>> /\ escaped = "none"
    /\ store \in CliStores
    /\ qcall = NoCall
    /\ qret = NoRet
    /\ cargs \in CommandLines
    /\ cpc = "parse"
    /\ crange = NoRange
    /\ cmeetings = <<>>
    /\ cout = NoOutput
    /\ ccalls = NoCalls

\* parser.parse_args()
ParseArgs ==
    /\ cpc = "parse"
    /\ IF ArgparseRejects(cargs)
       THEN cpc' = "done" /\ cout' = Failed("usage", "2")
       ELSE cpc' = "range" /\ cout' = cout
    /\ UNCHANGED <<clock, dr, hvars, qvars, cargs, crange, cmeetings, ccalls>>

\* the range from --period
ResolvePeriod ==
    /\ cpc = "range"
    /\ cargs.period # "None"
    /\ LET r == get_date_range(clock, cargs.period) IN
       IF r.kind = "ok"
       THEN cpc' = "check" /\ crange' = [start |-> r.start, end |-> r.end] /\ cout' = cout
       ELSE cpc' = "done" /\ crange' = crange /\ cout' = Failed("traceback", "1")
    /\ UNCHANGED <<clock, dr, hvars, qvars, cargs, cmeetings, ccalls>>

\* the range from --custom START END
ResolveCustom ==
    /\ cpc = "range"
    /\ cargs.period = "None" /\ cargs.custom # NoCustom
    /\ LET s == parse_datetime(cargs.custom[1], 0, 0)
           e == parse_datetime(cargs.custom[2], 23, 59)
       IN IF s.ok /\ e.ok
          THEN cpc' = "check" /\ crange' = [start |-> s.dt, end |-> e.dt] /\ cout' = cout
          ELSE cpc' = "done" /\ crange' = crange
               /\ cout' = Failed("Invalid date format", "0")
    /\ UNCHANGED <<clock, dr, hvars, qvars, cargs, cmeetings, ccalls>>

\* neither flag: args.period = "fromnow"
ResolveDefault ==
    /\ cpc = "range"
    /\ cargs.period = "None" /\ cargs.custom = NoCustom
    /\ cargs' = [cargs EXCEPT !.period = "fromnow"]
    /\ LET r == get_date_range(clock, "fromnow") IN
       IF r.kind = "ok"
       THEN cpc' = "check" /\ crange' = [start |-> r.start, end |-> r.end] /\ cout' = cout
       ELSE cpc' = "done" /\ crange' = crange /\ cout' = Failed("traceback", "1")
    /\ UNCHANGED <<clock, dr, hvars, qvars, cmeetings, ccalls>>

\* if start_date > end_date: print the error and return
CheckRange ==
    /\ cpc = "check"
    /\ IF RangeRejected(crange.start, crange.end)
       THEN cpc' = "done" /\ cout' = Failed("Start date must be before end date", "0")
       ELSE cpc' = "query" /\ cout' = cout
    /\ UNCHANGED <<clock, dr, hvars, qvars, cargs, crange, cmeetings, ccalls>>

\* meetings = get_meetings(...): the provider is called, and time passes
\* while it answers
QueryMeetings(env, elapsed) ==
    /\ cpc = "query"
    /\ clock' = AddDelta(clock, 0, 60 * elapsed)
    /\ ccalls' = [dispatch |-> ccalls.dispatch + 1,
                  restrict |-> ccalls.restrict + (IF env = "ok" THEN 1 ELSE 0)]
    /\ \E appointments \in Queried(env, store, crange) :
          LET r == get_meetings(env, appointments, cargs.filters) IN
          IF r.kind = "list"
          THEN cpc' = "filter" /\ cmeetings' = r.meetings /\ cout' = cout
          ELSE /\ cpc' = "done" /\ cmeetings' = cmeetings
               /\ cout' = Failed(IF env = "not_installed" THEN "Outlook is not installed"
                                 ELSE IF r.kind = "com_error" THEN "traceback"
                                 ELSE "Outlook error", "1")
    /\ UNCHANGED <<dr, hvars, qvars, cargs, crange>>

\* the past-meeting filter and the listing
FilterAndPrint ==
    /\ cpc = "filter"
    /\ LET meetings == IF PastFilterApplies(cargs) THEN NotPast(cmeetings, clock)
                       ELSE cmeetings
       IN cout' = [error |-> "none", header |-> TRUE, shown |-> meetings,
                   notice |-> (meetings = <<>>), status |-> "0"]
    /\ cpc' = "done"
    /\ UNCHANGED <<clock, dr, hvars, qvars, cargs, crange, cmeetings, ccalls>>

\* outlook.py get_agenda: its first statement reads "args", which is neither
\* a parameter nor a name of the module
GetAgenda ==
    /\ cpc = "parse"
    /\ cpc' = "done"
    /\ cout' = Failed("NameError", "1")
    /\ UNCHANGED <<clock, dr, hvars, qvars, cargs, crange, cmeetings, ccalls>>

NextCli ==
    \/ ParseArgs
    \/ ResolvePeriod
    \/ ResolveCustom
    \/ ResolveDefault
    \/ CheckRange
    \/ \E e \in CalendarEnvs, d \in 0..MaxElapsed : QueryMeetings(e, d)
    \/ FilterAndPrint
    \/ GetAgenda

SpecCli == InitCli /\ [][NextCli]_vars

Next ==
    \/ \E p \in Tokens : CallGetDateRange(p)
    \/ \E p \in Tokens : CallOutlookGetDateRange(p)
    \/ \E p \in Tokens : CallHandlerGetDateRange(p)
    \/ \E t \in QueryTexts, o \in DispatchOutcomes : CallbackDispatch(t, o)
    \/ CallbackYield
    \/ CallbackExcept
    \/ CallbackResume

Spec == Init /\ [][Next]_vars

---------------------------------------------------------------------------
(* Claims about the date-range resolvers and the callback, under Spec.     *)

Recognized == {"today", "tomorrow", "week", "month", "fromnow"}

Called == dr.fn # "none"

\* 00:00:00 on day 1 of the calendar month after the one holding now
FirstOfNextMonth(now) ==
    [year |-> IF now.month = 12 THEN now.year + 1 ELSE now.year,
     month |-> IF now.month = 12 THEN 1 ELSE now.month + 1,
     day |-> 1, hour |-> 0, minute |-> 0, second |-> 0, microsecond |-> 0]

FirstOfMonth(now) ==
    [year |-> now.year, month |-> now.month, day |-> 1,
     hour |-> 0, minute |-> 0, second |-> 0, microsecond |-> 0]

OneSecond == [days |-> 0, seconds |-> 1, microseconds |-> 0]

\* C5: every resolver, given a token outside the recognized set (in any
\* letter case), fails with the InvalidPeriod error (ValueError) and neither
\* returns a range nor fails otherwise.
C5_UnknownTokenRaisesInvalidPeriod ==
    (Called /\ LowerToken(dr.period) \notin Recognized) => dr.ret.kind = "ValueError"

\* C6 as stated: for period "month" in December, end's month is January of
\* the following year.
C6_DecemberEndInJanuary ==
    (Called /\ dr.period = "month" /\ clock.month = 12)
        => (dr.ret.kind = "ok" /\ dr.ret.end.month = 1 /\ dr.ret.end.year = clock.year + 1)

\* C6 amended: for period "month" in December, end is 23:59:59 on 31 December
\* of the current year, one second before 1 January of the following year.
C6_DecemberEndIsDec31 ==
    (Called /\ dr.period = "month" /\ clock.month = 12)
        => /\ dr.ret.kind = "ok"
           /\ dr.ret.end = [year |-> clock.year, month |-> 12, day |-> 31, hour |-> 23,
                            minute |-> 59, second |-> 59, microsecond |-> 0]
           /\ SubDt(FirstOfNextMonth(clock), dr.ret.end) = OneSecond

C6_Witness ==
    /\ dr.fn = "handler" /\ dr.period = "month" /\ clock.month = 12
    /\ dr.ret.kind = "ok" /\ dr.ret.end.month = 12

\* the parts of C7 left as they are: start is 00:00:00 on day 1 of the current
\* month, end is one second before 00:00:00 on day 1 of the next month,
\* start <= now, start <= end
C7Shape ==
    /\ dr.ret.kind = "ok"
    /\ dr.ret.start = FirstOfMonth(clock)
    /\ SubDt(FirstOfNextMonth(clock), dr.ret.end) = OneSecond
    /\ DtLE(dr.ret.start, clock)
    /\ DtLE(dr.ret.start, dr.ret.end)

\* C7 as stated: for period "month" and every instant, start is the first
\* instant of the month, end is one second before the next month's first
\* instant, and start <= now <= end.
C7_MonthRangeContainsNow ==
    (Called /\ dr.period = "month") => (C7Shape /\ DtLE(clock, dr.ret.end))

\* C7 amended: as stated, but now is bounded by end + 1 second (exclusive)
\* instead of end: start <= now < end + 1 second.
C7_MonthRange ==
    (Called /\ dr.period = "month") => (C7Shape /\ DtLT(clock, FirstOfNextMonth(clock)))

C7_Witness ==
    /\ dr.fn = "calendar" /\ dr.period = "month" /\ dr.ret.kind = "ok"
    /\ clock.month = 12 /\ clock.day = 31 /\ clock.microsecond = 999999

WeekLength == [days |-> 6, seconds |-> 23 * 3600 + 59 * 60 + 59, microseconds |-> 0]

IsWeekCall == Called /\ (dr.period = "week" \/ (dr.fn = "handler" /\ dr.period = "Week"))

\* the parts of C8 left as they are
C8Shape ==
    /\ dr.ret.kind = "ok"
    /\ Weekday(dr.ret.start) = 0
    /\ dr.ret.start = Midnight(dr.ret.start)
    /\ SubDt(dr.ret.end, dr.ret.start) = WeekLength
    /\ DtLE(dr.ret.start, clock)

\* C8 as stated: for period "week" and every instant, start is Monday
\* 00:00:00 of the week containing now, end - start is 6 days 23:59:59, and
\* start <= now <= end.
C8_WeekRangeContainsNow == IsWeekCall => (C8Shape /\ DtLE(clock, dr.ret.end))

\* C8 amended: as stated, but now is bounded by end + 1 second (exclusive):
\* start <= now < end + 1 second, so now lies in the week that starts at start.
C8_WeekRange ==
    IsWeekCall =>
        /\ C8Shape
        /\ LET d == SubDt(clock, dr.ret.end)
           IN d.days < 0 \/ (d.days = 0 /\ d.seconds = 0)

C8_Witness ==
    /\ dr.fn = "handler" /\ dr.period = "week" /\ dr.ret.kind = "ok"
    /\ Weekday(clock) = 6 /\ clock.hour = 23 /\ dr.ret.start.month # clock.month

\* C10: for an empty-text query the callback yields exactly one result, the
\* usage hint when Dispatch succeeded and the error description when it
\* failed; never two, never none once it has run, and no exception escapes.
C10_EmptyQueryOneResult ==
    (hpc # "start" /\ hquery = "") =>
        /\ escaped = "none"
        /\ Len(yielded) <= 1
        /\ hpc \in {"suspended", "done"} =>
              yielded = <<IF hdispatch = "ok" THEN UsageHint ELSE ErrorResult>>

C10_Witness ==
    /\ hpc = "done" /\ hquery = "" /\ hdispatch = "com_error"
    /\ yielded = <<ErrorResult>> /\ escaped = "none"

---------------------------------------------------------------------------
(* Claims about get_meetings, under SpecQuery.                             *)

QueryAnswered == qcall.impl # "none" /\ qcall.env = "ok"

\* a null field counts as the empty string
TextOf(v) == IF v = None THEN <<>> ELSE v

\* every supplied filter's substring occurs, case-insensitively, in its field
Matches(a, f) ==
    /\ f.subject # None => Contains(Lower(f.subject), Lower(TextOf(a.Subject)))
    /\ f.organizer # None => Contains(Lower(f.organizer), Lower(TextOf(a.Organizer)))
    /\ f.attendee # None => Contains(Lower(f.attendee), Lower(TextOf(a.RequiredAttendees)))

MeetingsOf(appointments) == [i \in DOMAIN appointments |-> Meeting(appointments[i])]

AllReadable(appointments) == \A i \in DOMAIN appointments : appointments[i].bad = "none"

\* the records a query over appointments with filters f should return
Kept(appointments, f) ==
    MeetingsOf(SelectSeq(appointments, LAMBDA a : a.bad = "none" /\ Matches(a, f)))

\* sub is obtained from seq by deleting elements
RECURSIVE IsSubsequence(_, _)
IsSubsequence(sub, seq) ==
    IF sub = <<>> THEN TRUE
    ELSE IF seq = <<>> THEN FALSE
    ELSE IF Head(sub) = Head(seq) THEN IsSubsequence(Tail(sub), Tail(seq))
    ELSE IsSubsequence(sub, Tail(seq))

\* C1: over any sequence of records the provider returned and any combination
\* of filters, get_meetings keeps a record iff every supplied filter matches;
\* with no filter it keeps every record.
C1_KeepsExactlyMatches ==
    (QueryAnswered /\ AllReadable(qcall.appointments))
        => qret.meetings = Kept(qcall.appointments, qcall.filters)

\* C1 for calendar.py's get_meetings alone
CalendarKeepsExactlyMatches ==
    (QueryAnswered /\ qcall.impl = "calendar" /\ AllReadable(qcall.appointments))
        => qret = ReturnList(Kept(qcall.appointments, qcall.filters))

CalendarKeepsWitness ==
    /\ QueryAnswered /\ qcall.impl = "calendar" /\ AllReadable(qcall.appointments)
    /\ Len(qcall.appointments) = 3 /\ Len(qret.meetings) = 1
    /\ qcall.filters.subject # None /\ qcall.filters.attendee # None

AttributeErrorsOnly ==
    \A i \in DOMAIN qcall.appointments :
        qcall.appointments[i].exc \in {"none", "AttributeError"}

\* C4: when reading a field of a record fails, that record alone is skipped:
\* the call returns exactly the other records that pass the filters.
C4_FailingRecordSkipped ==
    (QueryAnswered /\ AttributeErrorsOnly /\ ~AllReadable(qcall.appointments))
        => qret.meetings = Kept(qcall.appointments, qcall.filters)

\* C4 for calendar.py's get_meetings alone
CalendarSkipsFailingRecord ==
    (QueryAnswered /\ qcall.impl = "calendar" /\ AttributeErrorsOnly
     /\ ~AllReadable(qcall.appointments))
        => qret = ReturnList(Kept(qcall.appointments, qcall.filters))

CalendarSkipsWitness ==
    /\ QueryAnswered /\ qcall.impl = "calendar" /\ AttributeErrorsOnly
    /\ Len(qcall.appointments) = 3 /\ qcall.appointments[2].bad = "Body"
    /\ Len(qret.meetings) = 2

\* C9: get_meetings returns a list, an order-preserving subsequence of the
\* provider's start-ascending result (so sorted by start); when nothing
\* matches it returns the empty list.
C9_OrderedList ==
    (QueryAnswered /\ AttributeErrorsOnly) =>
        /\ qret.kind = "list"
        /\ IsSubsequence(qret.meetings, MeetingsOf(qcall.appointments))
        /\ \A i, j \in DOMAIN qret.meetings :
              i < j => DtLE(qret.meetings[i].start, qret.meetings[j].start)
        /\ Kept(qcall.appointments, qcall.filters) = <<>> => qret = ReturnList(<<>>)

\* C9 for calendar.py's get_meetings alone
CalendarOrderedList ==
    (qcall.impl = "calendar") => C9_OrderedList

CalendarOrderedWitness ==
    /\ QueryAnswered /\ qcall.impl = "calendar" /\ Len(qret.meetings) = 2
    /\ Len(store) = 3 /\ DtLT(store[3].Start, store[1].Start)
    /\ qret.meetings[1].start # qret.meetings[2].start

---------------------------------------------------------------------------
(* Claims about the command line, under SpecCli.                           *)

\* the run printed the listing
Listed == cpc = "done" /\ cout.header

\* C2: without the include-past flag no record that ended before the current
\* local time is displayed, however the range was chosen (--period, --custom
\* or the default); with the flag such records are displayed.
C2_PastHiddenUnlessFlag ==
    Listed =>
        IF cargs.past THEN cout.shown = cmeetings
        ELSE \A i \in DOMAIN cout.shown : DtLE(clock, cout.shown[i].end)

\* C2 for the runs whose range came from --period or the default
PeriodRunsHidePast ==
    (Listed /\ cargs.custom = NoCustom) =>
        IF cargs.past THEN cout.shown = cmeetings
        ELSE /\ \A i \in DOMAIN cout.shown : DtLE(clock, cout.shown[i].end)
             /\ IsSubsequence(cout.shown, cmeetings)
             /\ \A i \in DOMAIN cmeetings :
                   DtLE(clock, cmeetings[i].end) =>
                       \E j \in DOMAIN cout.shown : cout.shown[j] = cmeetings[i]

PeriodRunsHidePastWitness ==
    /\ Listed /\ cargs.period = "fromnow" /\ ~cargs.past
    /\ Len(cmeetings) = 2 /\ Len(cout.shown) = 1
    /\ SubDt(clock, cmeetings[1].end) = [days |-> 0, seconds |-> 60, microseconds |-> 0]

\* the text is a date or date-time the parser accepts
Parses(txt) ==
    /\ txt.form \in {"date", "datetime"}
    /\ txt.month \in 1..12 /\ txt.day \in 1..DaysInMonth(txt.year, txt.month)
    /\ txt.hour \in 0..23 /\ txt.minute \in 0..59

CustomUnparsed ==
    /\ cargs.period = "None" /\ cargs.custom # NoCustom
    /\ ~(Parses(cargs.custom[1]) /\ Parses(cargs.custom[2]))

PeriodUnrecognized == cargs.period \notin (PeriodChoices \cup {"None", "fromnow"})

StartAfterEnd == crange # NoRange /\ DtLT(crange.end, crange.start)

NothingDone == ccalls = NoCalls /\ ~cout.header /\ cout.shown = <<>> /\ cmeetings = <<>>

\* C3: when the custom strings do not parse, the period token is
\* unrecognized, or the resolved start is later than the resolved end, the
\* error is reported and the run ends with no provider call made (no
\* Dispatch, no Restrict) and no meeting output.
C3_ErrorsBeforeProvider ==
    /\ (CustomUnparsed \/ PeriodUnrecognized \/ StartAfterEnd) =>
          /\ NothingDone
          /\ cpc \in {"parse", "range", "check", "done"}
          /\ cpc = "done" => cout.error # "none"
    /\ PeriodUnrecognized => cpc \in {"parse", "done"}
    /\ CustomUnparsed => cpc \in {"parse", "range", "done"}

C3_Witness ==
    /\ cpc = "done" /\ StartAfterEnd /\ NothingDone
    /\ cout.error = "Start date must be before end date"
    /\ cargs.custom # NoCustom /\ cargs.custom[1].form = "datetime"

===========================================================================
